---------------------------- MODULE Spec2Model ----------------------------
(***************************************************************************)
(* A model of the rmq consumer pipeline (queue.go, delivery.go): the store *)
(* structures of one queue (Ready, Unacked, Rejected, Delayed, the push    *)
(* queue's Ready), the queue object (buffers, prefetch limit, shutdown     *)
(* flag, wait group), the ready poller, the delayed poller with its        *)
(* promotion script, the consumer workers and the delivery handle.         *)
(*                                                                         *)
(* Every store command is one atomic step, as the store executes it; a Go  *)
(* channel operation is one atomic step.  A list is a sequence whose       *)
(* first element is the list's head (left end).  The sorted set is a       *)
(* function from member to score, NoScore for a member that is absent.     *)
(***************************************************************************)
EXTENDS Integers, Sequences, FiniteSets, TLC

\* ------------------------------------------------------------------ bounds
NumPayloads == 2       \* payload strings are 1..NumPayloads
MaxPublish == 2        \* Publish + PublishToDelayedQueue calls of a run
MaxTime == 1           \* the clock runs 0..MaxTime
MaxPrefetch == 2       \* StartConsuming's prefetchLimit is 1..MaxPrefetch
MaxConsumers == 1      \* AddConsumer registrations
MaxOps == 2            \* delivery-handle calls a callback makes on one handle
MaxReturn == 1         \* ReturnRejected / ReturnAllRejected calls of a run
MaxPurge == 201        \* sizes of the structures a purge is run on
MaxWait == 1           \* WaitForConsuming calls of a run
MaxBatch == 2          \* batchSize of a batch consumer

Payloads == 1..NumPayloads
NoPayload == 0
NoScore == -1
Paths == {"ready", "delayed"}
Consumers == 1..MaxConsumers
Workers == Consumers \X Paths

\* ------------------------------------------------------- sequence helpers
Range(s) == {s[i] : i \in 1..Len(s)}

Front(s) == SubSeq(s, 1, Len(s) - 1)

Last(s) == s[Len(s)]

Min(a, b) == IF a < b THEN a ELSE b

\* Occurrences of v in s.
Occ(s, v) == Cardinality({i \in 1..Len(s) : s[i] = v})

IsPrefix(s, t) == Len(s) <= Len(t) /\ s = SubSeq(t, 1, Len(s))

\* ------------------------------------------------- variants of the code
\* Each is the code with one change, under which the property named with
\* it no longer holds.

\* batchSize that never asks for a payload (AtLeastOnceReady).
batchSizeNone(limit, prefetchCount, readyCount) == 0

\* A variant of the code: a batch size that ignores what is buffered.
batchSizeAll(limit, prefetchCount, readyCount) == Min(readyCount, limit)

\* Ack that reports success whatever LREM removed (AckRemovesOne).
AckResultAlways(removed) == TRUE

\* Publish that pushes at the tail, RPUSH for LPUSH (SingleConsumerOrder).
LPushTail(list, v) == Append(list, v)

\* LLEN that is one short (ReturnRejectedMoves).
LLenShort(list) == IF Len(list) > 0 THEN Len(list) - 1 ELSE 0

\* LTRIM that keeps one element more than asked (PurgeEmpties).
LTrimKeep(list, start, stop) ==
    IF Len(list) + stop + 1 < 0 THEN <<>>
    ELSE SubSeq(list, 1, Min(Len(list), Len(list) + stop + 2))

\* ----------------------------------------------- store commands (lists)
\* LPUSH key v: v becomes the head of the list.
LPush(list, v) == <<v>> \o list

\* LPUSH key v1 .. vn: the values are pushed one after the other, so the
\* last one ends up at the head.
RECURSIVE LPushAll(_, _)
LPushAll(list, vs) ==
    IF vs = <<>> THEN list ELSE LPushAll(LPush(list, vs[1]), Tail(vs))

LLen(list) == Len(list)

\* Index of the first occurrence of v from the head, 0 when absent.
RECURSIVE FirstIndex(_, _, _)
FirstIndex(list, v, i) ==
    IF i > Len(list) THEN 0
    ELSE IF list[i] = v THEN i
    ELSE FirstIndex(list, v, i + 1)

\* LREM key 1 v removes the first occurrence of v from the head; the reply
\* is the number of removed elements.
LRemCount(list, v) == IF FirstIndex(list, v, 1) = 0 THEN 0 ELSE 1

LRem(list, v) ==
    LET i == FirstIndex(list, v, 1)
    IN  IF i = 0 THEN list
        ELSE SubSeq(list, 1, i - 1) \o SubSeq(list, i + 1, Len(list))

\* LTRIM key start stop, for start >= 0 and stop < 0: the elements of index
\* start .. len + stop (from 0) are kept, none when that range is empty.
LTrim(list, start, stop) ==
    IF start > Len(list) + stop THEN <<>>
    ELSE SubSeq(list, start + 1, Len(list) + stop + 1)

\* RPOPLPUSH src dst: the tail of src becomes the head of dst; the reply is
\* nil (redis.Nil) when src is empty.
RPopIsNil(src) == src = <<>>

RPopValue(src) == Last(src)

\* A variant of the code: RPOPLPUSH that leaves the source as it is.
RPopSrcKeep(src) == src

RPopSrc(src) == Front(src)

RPopDst(src, dst) == LPush(dst, Last(src))

\* ------------------------------------------ store commands (sorted set)
ZMembers(z) == {p \in DOMAIN z : z[p] # NoScore}

ZCount(z) == Cardinality(ZMembers(z))

\* ZADD key score member: the reply is the number of members added, 0 when
\* the member was there and only its score changed.
ZAddCount(z, p) == IF z[p] = NoScore THEN 1 ELSE 0

\* A variant of the code: ZADD that adds nothing.
ZAddNot(z, p, score) == z

ZAdd(z, p, score) == [z EXCEPT ![p] = score]

\* The sorted set's order: by score, members of equal score by name.
\* A variant of the code: a sorted set read from the highest score down.
ZBeforeDesc(z, p, q) == z[p] > z[q] \/ (z[p] = z[q] /\ p < q)

ZBefore(z, p, q) == z[p] < z[q] \/ (z[p] = z[q] /\ p < q)

ZFirst(z, S) == CHOOSE p \in S : \A q \in S \ {p} : ZBefore(z, p, q)

RECURSIVE ZSorted(_, _)
ZSorted(z, S) ==
    IF S = {} THEN <<>>
    ELSE LET p == ZFirst(z, S) IN <<p>> \o ZSorted(z, S \ {p})

\* ZRANGEBYSCORE key -inf max
ZRangeByScore(z, max) == ZSorted(z, {p \in ZMembers(z) : z[p] <= max})

\* A member's rank: the number of members before it.
ZRank(z, p) == Cardinality({q \in ZMembers(z) : ZBefore(z, q, p)})

\* ZREMRANGEBYRANK key 0 stop: removes the members of rank 0..stop.
ZRemRangeByRank(z, stop) ==
    [p \in DOMAIN z |->
        IF z[p] # NoScore /\ ZRank(z, p) <= stop THEN NoScore ELSE z[p]]


\* ------------------------------------------------- the promotion script
ScriptChunk == 100

\* The script's loop "for i = 1, ARGV[2], 100 do lpush(KEYS[2], unpack(val,
\* i, math.min(i+99, ARGV[2])))": unpack yields nil for every index past
\* the end of val, and redis.call rejects a nil argument with an error,
\* which aborts the script.  What the script wrote before stays written.
RECURSIVE ScriptPush(_, _, _, _)
ScriptPush(list, val, i, n) ==
    IF i > n THEN [err |-> FALSE, list |-> list]
    ELSE LET hi == Min(i + ScriptChunk - 1, n)
         IN  IF hi > Len(val) THEN [err |-> TRUE, list |-> list]
             ELSE ScriptPush(LPushAll(list, SubSeq(val, i, hi)), val,
                             i + ScriptChunk, n)

\* EVAL of the script with KEYS = {from, to}, ARGV = {now, batchSize}: the
\* new sorted set, the new list, the reply (val) and whether the reply is
\* an error.
moveFromSortedSetToList(from, to, tnow, n) ==
    LET val == ZRangeByScore(from, tnow)
    IN  IF val = <<>>
        THEN [err |-> FALSE, from |-> from, to |-> to, val |-> val]
        ELSE LET pushed == ScriptPush(to, val, 1, n)
             IN  [err |-> pushed.err,
                  from |-> ZRemRangeByRank(from, n - 1),
                  to |-> pushed.list,
                  val |-> val]

\* ------------------------------------------------------------- the state
VARIABLES
    ready, unacked, rejected, delayed, pushReady,   \* the store
    now,                                            \* the clock
    deliveryChan, deliveryChanForDelayedQueue,      \* buffered deliveries
    chanState, delayedChanState,                    \* "nil", "open", "closed"
    prefetchLimit, consumingStopped, pushKey,
    waitGroup,                                      \* consumerWaitGroup's count
    numConsumers,                                   \* AddConsumer calls so far
    panicked,                                       \* log.Panicf ended the process
    rpc, rcount, rleft, rhold,                      \* the ready poller
    dpc, dcount, dbatch, dnow, dvals, dpromoted,    \* the delayed poller
    wpc, wdel, wcall, wres, wtmp, wscore, wops,     \* the workers
    retpc, retleft, retmoved, retcall, retval,      \* a ReturnRejected call
    ppc, pkey, ptotal, ptodo, pret, psize,          \* a purge call
    life, waitpc, nwait,                            \* lifecycle calls
    bpc, bsize, batch, timer, timerC, armedFor, flushed,  \* batch workers
    logging, pubLog, consLog, consDelayed, npub, nret, notBefore  \* history

store == <<ready, unacked, rejected, delayed, pushReady>>

queue ==
    <<deliveryChan, deliveryChanForDelayedQueue, chanState, delayedChanState,
      prefetchLimit, consumingStopped, pushKey, waitGroup, numConsumers>>

rpoll == <<rpc, rcount, rleft, rhold>>

dpoll == <<dpc, dcount, dbatch, dnow, dvals, dpromoted>>

wrk == <<wpc, wdel, wcall, wres, wtmp, wscore, wops>>

retvars == <<retpc, retleft, retmoved, retcall, retval>>

hist == <<logging, pubLog, consLog, consDelayed, npub, nret, notBefore>>

\* A purge call: its position, the structure it works on, its locals total
\* and todo, what it returned, and the structure's size at the call.
purgevars == <<ppc, pkey, ptotal, ptodo, pret, psize>>

\* The state of the calls that the pipeline's own steps leave alone.
\* The lifecycle calls' results and a WaitForConsuming call.
lifevars == <<life, waitpc, nwait>>

\* The batch worker of each path: its position, batchSize, its batch, its
\* timer ("stopped", "armed" or "expired") and the timer's channel; armedFor
\* tells whether the timer was last armed for the batch now being filled,
\* and flushed describes the last call of the batch callback.
batchvars == <<bpc, bsize, batch, timer, timerC, armedFor, flushed>>

aux == <<purgevars, lifevars, batchvars>>

vars == <<store, now, queue, panicked, rpoll, dpoll, wrk, retvars, aux, hist>>

NoDelivery == [payload |-> NoPayload, pushKey |-> ""]

\* newDelivery(payload, unackedKey, delayedKey, rejectedKey, pushKey, client)
newDelivery(payload, key) == [payload |-> payload, pushKey |-> key]

NoReturn == [op |-> "none", count |-> 0, rejected |-> 0, ready |-> 0]

\* The histories are kept in the specifications that read them.
Log(log, v) == IF logging THEN Append(log, v) ELSE log

\* The queue object, its goroutines and the callers, with nothing started.
NoFlush == [size |-> 0, cause |-> "none"]

InitObject(log) ==
    /\ now = 0
    /\ deliveryChan = <<>> /\ deliveryChanForDelayedQueue = <<>>
    /\ chanState = "nil" /\ delayedChanState = "nil"
    /\ prefetchLimit = 0 /\ consumingStopped = 0 /\ pushKey = ""
    /\ waitGroup = 0 /\ numConsumers = 0
    /\ panicked = FALSE
    /\ rpc = "off" /\ rcount = 0 /\ rleft = 0 /\ rhold = NoDelivery
    /\ dpc = "off" /\ dcount = 0 /\ dbatch = 0 /\ dnow = 0
    /\ dvals = <<>> /\ dpromoted = {}
    /\ wpc = [w \in Workers |-> "none"]
    /\ wdel = [w \in Workers |-> NoDelivery]
    /\ wcall = [w \in Workers |-> "none"]
    /\ wres = [w \in Workers |-> FALSE]
    /\ wtmp = [w \in Workers |-> 0]
    /\ wscore = [w \in Workers |-> 0]
    /\ wops = [w \in Workers |-> 0]
    /\ retpc = "idle" /\ retleft = 0 /\ retmoved = 0 /\ retcall = NoReturn
    /\ retval = 0
    /\ pubLog = <<>> /\ consLog = <<>> /\ consDelayed = {}
    /\ npub = 0 /\ nret = 0
    /\ notBefore = [p \in Payloads |-> 0]
    /\ logging = log
    /\ ppc = "idle" /\ pkey = "none" /\ ptotal = 0 /\ ptodo = 0 /\ pret = 0
    /\ psize = 0
    /\ life = [op |-> "none", ret |-> FALSE, started |-> 0, stopped |-> 0]
    /\ waitpc = "idle" /\ nwait = 0
    /\ bpc = [path \in Paths |-> "none"] /\ bsize = 0
    /\ batch = [path \in Paths |-> <<>>]
    /\ timer = [path \in Paths |-> "stopped"]
    /\ timerC = [path \in Paths |-> "empty"]
    /\ armedFor = [path \in Paths |-> FALSE]
    /\ flushed = [path \in Paths |-> NoFlush]

InitState(log) ==
    /\ ready = <<>> /\ unacked = <<>> /\ rejected = <<>> /\ pushReady = <<>>
    /\ delayed = [p \in Payloads |-> NoScore]
    /\ InitObject(log)

Init == InitState(FALSE)

InitLogged == InitState(TRUE)

\* ------------------------------------------------------------ publishers
\* Publish: LPUSH readyKey payload.
Publish(p) ==
    /\ npub < MaxPublish
    /\ ready' = LPush(ready, p)
    /\ pubLog' = Log(pubLog, p)
    /\ npub' = npub + 1
    /\ UNCHANGED <<unacked, rejected, delayed, pushReady, now, queue, panicked,
                   rpoll, dpoll, wrk, retvars, aux, consLog, consDelayed, nret,
                   notBefore, logging>>

\* PublishToDelayedQueue: ZADD delayedKey (now + delayedTime) payload.
PublishToDelayedQueue(p, d) ==
    /\ npub < MaxPublish
    /\ delayed' = ZAdd(delayed, p, now + d)
    /\ notBefore' = IF logging THEN [notBefore EXCEPT ![p] = now + d]
                    ELSE notBefore
    /\ npub' = npub + 1
    /\ UNCHANGED <<ready, unacked, rejected, pushReady, now, queue, panicked,
                   rpoll, dpoll, wrk, retvars, aux, pubLog, consLog, consDelayed,
                   nret, logging>>

\* Time passes.
Tick ==
    /\ now < MaxTime
    /\ now' = now + 1
    /\ UNCHANGED <<store, queue, panicked, rpoll, dpoll, wrk, retvars, aux, hist>>

\* ------------------------------------------------------------- lifecycle
\* SetPushQueue stores the other queue's ready key.
SetPushQueue ==
    /\ pushKey = ""
    /\ pushKey' = "push"
    /\ UNCHANGED <<store, now, deliveryChan, deliveryChanForDelayedQueue,
                   chanState, delayedChanState, prefetchLimit,
                   consumingStopped, waitGroup, numConsumers, panicked,
                   rpoll, dpoll, wrk, retvars, aux, hist>>

\* life keeps the last lifecycle call and its result, and how many
\* StartConsuming and StopConsuming calls have returned true.
Returns(op, ret) ==
    [op |-> op, ret |-> ret,
     started |-> life.started + (IF op = "StartConsuming" /\ ret THEN 1 ELSE 0),
     stopped |-> life.stopped + (IF op = "StopConsuming" /\ ret THEN 1 ELSE 0)]

\* A variant of the code: StartConsuming without its test of deliveryChan
\* (LifecycleOneShot).
StartConsumingAgain(limit) ==
    /\ ~panicked
    /\ prefetchLimit' = limit
    /\ chanState' = "open" /\ delayedChanState' = "open"
    /\ rpc' = "len" /\ dpc' = "len"
    /\ life' = Returns("StartConsuming", TRUE)
    /\ UNCHANGED <<store, now, deliveryChan, deliveryChanForDelayedQueue,
                   consumingStopped, pushKey, waitGroup, numConsumers,
                   panicked, rcount, rleft, rhold, dcount, dbatch, dnow,
                   dvals, dpromoted, wrk, retvars, purgevars, batchvars, waitpc, nwait,
                   hist>>

\* StartConsuming returns false when deliveryChan is set; otherwise it
\* makes the two channels and starts the two pollers.
StartConsuming(limit) ==
    /\ ~panicked
    /\ IF chanState # "nil"
       THEN /\ life' = Returns("StartConsuming", FALSE)
            /\ UNCHANGED <<prefetchLimit, chanState, delayedChanState, rpc, dpc>>
       ELSE /\ prefetchLimit' = limit
            /\ chanState' = "open" /\ delayedChanState' = "open"
            /\ rpc' = "len" /\ dpc' = "len"
            /\ life' = Returns("StartConsuming", TRUE)
    /\ UNCHANGED <<store, now, deliveryChan, deliveryChanForDelayedQueue,
                   consumingStopped, pushKey, waitGroup, numConsumers,
                   panicked, rcount, rleft, rhold, dcount, dbatch, dnow,
                   dvals, dpromoted, wrk, retvars, purgevars, batchvars, waitpc, nwait,
                   hist>>

\* StopConsuming returns false when not consuming or already stopped;
\* otherwise it stores 1 in consumingStopped.
StopConsuming ==
    /\ ~panicked
    /\ IF chanState = "nil" \/ delayedChanState = "nil" \/ consumingStopped = 1
       THEN /\ life' = Returns("StopConsuming", FALSE)
            /\ UNCHANGED consumingStopped
       ELSE /\ consumingStopped' = 1
            /\ life' = Returns("StopConsuming", TRUE)
    /\ UNCHANGED <<store, now, deliveryChan, deliveryChanForDelayedQueue,
                   chanState, delayedChanState, prefetchLimit, pushKey,
                   waitGroup, numConsumers, panicked, rpoll, dpoll, wrk,
                   retvars, purgevars, batchvars, waitpc, nwait, hist>>

\* WaitForConsuming is called: consumerWaitGroup.Wait() starts.
WaitCall ==
    /\ ~panicked /\ waitpc = "idle" /\ nwait < MaxWait
    /\ waitpc' = "waiting"
    /\ nwait' = nwait + 1
    /\ UNCHANGED <<store, now, queue, panicked, rpoll, dpoll, wrk, retvars,
                   purgevars, batchvars, life, hist>>

\* consumerWaitGroup.Wait() returns when the counter is 0.
WaitReturn ==
    /\ ~panicked /\ waitpc = "waiting"
    /\ waitGroup = 0
    /\ waitpc' = "idle"
    /\ UNCHANGED <<store, now, queue, panicked, rpoll, dpoll, wrk, retvars,
                   purgevars, batchvars, life, nwait, hist>>

\* AddConsumer: addConsumer panics when deliveryChan is nil; otherwise the
\* two worker goroutines of the consumer are launched.
AddConsumer ==
    /\ ~panicked
    /\ numConsumers < MaxConsumers
    /\ IF chanState = "nil"
       THEN /\ panicked' = TRUE
            /\ UNCHANGED <<numConsumers, wpc>>
       ELSE /\ numConsumers' = numConsumers + 1
            /\ wpc' = [w \in Workers |->
                         IF w[1] = numConsumers + 1 THEN "start" ELSE wpc[w]]
            /\ UNCHANGED panicked
    /\ UNCHANGED <<store, now, deliveryChan, deliveryChanForDelayedQueue,
                   chanState, delayedChanState, prefetchLimit,
                   consumingStopped, pushKey, waitGroup, rpoll, dpoll, wdel,
                   wcall, wres, wtmp, wscore, wops, retvars, aux, hist>>

\* ------------------------------------------------------ the ready poller
\* batchSize(): prefetchLimit - len(deliveryChan), capped by ReadyCount().
batchSize(limit, prefetchCount, readyCount) ==
    IF readyCount < limit - prefetchCount THEN readyCount
    ELSE limit - prefetchCount

\* consume, top of the loop: batchSize reads len(deliveryChan).
ConsumeLen ==
    /\ ~panicked /\ rpc = "len"
    /\ rcount' = Len(deliveryChan)
    /\ rpc' = "count"
    /\ UNCHANGED <<store, now, queue, panicked, rleft, rhold, dpoll, wrk,
                   retvars, aux, hist>>

\* batchSize reads ReadyCount(); consumeBatch returns false for a batch
\* size of 0, and consume goes on to its check of the shutdown flag.
ConsumeBatchSize ==
    /\ ~panicked /\ rpc = "count"
    /\ rleft' = batchSize(prefetchLimit, rcount, LLen(ready))
    /\ rpc' = IF rleft' = 0 THEN "check" ELSE "pop"
    /\ UNCHANGED <<store, now, queue, panicked, rcount, rhold, dpoll, wrk,
                   retvars, aux, hist>>

\* consumeBatch, one iteration: RPOPLPUSH readyKey unackedKey; a nil reply
\* ends the batch.
ConsumeBatchPop ==
    /\ ~panicked /\ rpc = "pop"
    /\ IF RPopIsNil(ready)
       THEN /\ rpc' = "check"
            /\ UNCHANGED <<ready, unacked, rhold>>
       ELSE /\ rhold' = newDelivery(RPopValue(ready), pushKey)
            /\ unacked' = RPopDst(ready, unacked)
            /\ ready' = RPopSrc(ready)
            /\ rpc' = "send"
    /\ UNCHANGED <<rejected, delayed, pushReady, now, queue, panicked, rcount,
                   rleft, dpoll, wrk, retvars, aux, hist>>

\* consumeBatch: deliveryChan <- delivery, which blocks while the channel
\* is full.
ConsumeBatchSend ==
    /\ ~panicked /\ rpc = "send"
    /\ Len(deliveryChan) < prefetchLimit
    /\ deliveryChan' = Append(deliveryChan, rhold)
    /\ rhold' = NoDelivery
    /\ rleft' = rleft - 1
    /\ rpc' = IF rleft' = 0 THEN "check" ELSE "pop"
    /\ UNCHANGED <<store, now, deliveryChanForDelayedQueue, chanState,
                   delayedChanState, prefetchLimit, consumingStopped, pushKey,
                   waitGroup, numConsumers, panicked, rcount, dpoll, wrk,
                   retvars, aux, hist>>

\* A variant of the code: consume closes the channel when the flag is set
\* and goes on with its loop instead of returning.
ConsumeCheckLoop ==
    /\ ~panicked /\ rpc = "check"
    /\ chanState' = IF consumingStopped = 1 THEN "closed" ELSE chanState
    /\ rpc' = "len"
    /\ UNCHANGED <<store, now, deliveryChan, deliveryChanForDelayedQueue,
                   delayedChanState, prefetchLimit, consumingStopped, pushKey,
                   waitGroup, numConsumers, panicked, rcount, rleft, rhold,
                   dpoll, wrk, retvars, aux, hist>>

\* consume: the shutdown flag is read once per iteration; when set the
\* channel is closed.
ConsumeCheck ==
    /\ ~panicked /\ rpc = "check"
    /\ IF consumingStopped = 1
       THEN chanState' = "closed" /\ rpc' = "drain"
       ELSE chanState' = chanState /\ rpc' = "len"
    /\ UNCHANGED <<store, now, deliveryChan, deliveryChanForDelayedQueue,
                   delayedChanState, prefetchLimit, consumingStopped, pushKey,
                   waitGroup, numConsumers, panicked, rcount, rleft, rhold,
                   dpoll, wrk, retvars, aux, hist>>

\* consume: for len(deliveryChan) > 0 { <-deliveryChan }, then return.
ConsumeDrain ==
    /\ ~panicked /\ rpc = "drain"
    /\ IF Len(deliveryChan) > 0
       THEN deliveryChan' = Tail(deliveryChan) /\ rpc' = rpc
       ELSE deliveryChan' = deliveryChan /\ rpc' = "done"
    /\ UNCHANGED <<store, now, deliveryChanForDelayedQueue, chanState,
                   delayedChanState, prefetchLimit, consumingStopped, pushKey,
                   waitGroup, numConsumers, panicked, rcount, rleft, rhold,
                   dpoll, wrk, retvars, aux, hist>>

\* ---------------------------------------------------- the delayed poller
\* batchSizeForDelayedQueue(): as batchSize, with DelayedCount().
batchSizeForDelayedQueue(limit, prefetchCount, delayedCount) ==
    IF delayedCount < limit - prefetchCount THEN delayedCount
    ELSE limit - prefetchCount

DelayedLen ==
    /\ ~panicked /\ dpc = "len"
    /\ dcount' = Len(deliveryChanForDelayedQueue)
    /\ dpc' = "count"
    /\ UNCHANGED <<store, now, queue, panicked, rpoll, dbatch, dnow, dvals,
                   dpromoted, wrk, retvars, aux, hist>>

DelayedBatchSize ==
    /\ ~panicked /\ dpc = "count"
    /\ dbatch' = batchSizeForDelayedQueue(prefetchLimit, dcount, ZCount(delayed))
    /\ dpc' = IF dbatch' = 0 THEN "check" ELSE "now"
    /\ UNCHANGED <<store, now, queue, panicked, rpoll, dcount, dnow, dvals,
                   dpromoted, wrk, retvars, aux, hist>>

\* consumeBatchForDelayedQueue reads time.Now() for the script's argument.
DelayedNow ==
    /\ ~panicked /\ dpc = "now"
    /\ dnow' = now
    /\ dpc' = "eval"
    /\ UNCHANGED <<store, now, queue, panicked, rpoll, dcount, dbatch, dvals,
                   dpromoted, wrk, retvars, aux, hist>>

\* consumeBatchForDelayedQueue: the script runs as one command.  An error
\* reply makes redisErrIsNil panic; otherwise the reply's values are what
\* the loop sends.  dpromoted records what the script pushed onto Unacked.
DelayedEval ==
    /\ ~panicked /\ dpc = "eval"
    /\ LET r == moveFromSortedSetToList(delayed, unacked, dnow, dbatch)
       IN  /\ delayed' = r.from
           /\ unacked' = r.to
           /\ IF r.err
              THEN /\ panicked' = TRUE
                   /\ UNCHANGED <<dpc, dvals, dpromoted>>
              ELSE /\ panicked' = panicked
                   /\ dvals' = [i \in 1..Len(r.val) |->
                                  newDelivery(r.val[i], pushKey)]
                   /\ dpromoted' = {r.val[i] : i \in 1..(Len(r.to) - Len(unacked))}
                   /\ dpc' = IF r.val = <<>> THEN "check" ELSE "send"
    /\ UNCHANGED <<ready, rejected, pushReady, now, queue, rpoll, dcount,
                   dbatch, dnow, wrk, retvars, aux, hist>>

\* consumeBatchForDelayedQueue: deliveryChanForDelayedQueue <- delivery for
\* each value of the reply.
DelayedSend ==
    /\ ~panicked /\ dpc = "send"
    /\ Len(deliveryChanForDelayedQueue) < prefetchLimit
    /\ deliveryChanForDelayedQueue' = Append(deliveryChanForDelayedQueue, Head(dvals))
    /\ dvals' = Tail(dvals)
    /\ dpc' = IF dvals' = <<>> THEN "check" ELSE "send"
    /\ dpromoted' = IF dvals' = <<>> THEN {} ELSE dpromoted
    /\ UNCHANGED <<store, now, deliveryChan, chanState, delayedChanState,
                   prefetchLimit, consumingStopped, pushKey, waitGroup,
                   numConsumers, panicked, rpoll, dcount, dbatch, dnow, wrk,
                   retvars, aux, hist>>

DelayedCheck ==
    /\ ~panicked /\ dpc = "check"
    /\ IF consumingStopped = 1
       THEN delayedChanState' = "closed" /\ dpc' = "drain"
       ELSE delayedChanState' = delayedChanState /\ dpc' = "len"
    /\ UNCHANGED <<store, now, deliveryChan, deliveryChanForDelayedQueue,
                   chanState, prefetchLimit, consumingStopped, pushKey,
                   waitGroup, numConsumers, panicked, rpoll, dcount, dbatch,
                   dnow, dvals, dpromoted, wrk, retvars, aux, hist>>

DelayedDrain ==
    /\ ~panicked /\ dpc = "drain"
    /\ IF Len(deliveryChanForDelayedQueue) > 0
       THEN /\ deliveryChanForDelayedQueue' = Tail(deliveryChanForDelayedQueue)
            /\ dpc' = dpc
       ELSE /\ deliveryChanForDelayedQueue' = deliveryChanForDelayedQueue
            /\ dpc' = "done"
    /\ UNCHANGED <<store, now, deliveryChan, chanState, delayedChanState,
                   prefetchLimit, consumingStopped, pushKey, waitGroup,
                   numConsumers, panicked, rpoll, dcount, dbatch, dnow, dvals,
                   dpromoted, wrk, retvars, aux, hist>>

\* ------------------------------------------------------------ the workers
chanOf(w) == IF w[2] = "ready" THEN deliveryChan ELSE deliveryChanForDelayedQueue

chanStateOf(w) == IF w[2] = "ready" THEN chanState ELSE delayedChanState

\* consumerConsume / consumerConsumeDelayedQueue: increaseConsumerCount().
WorkerStart(w) ==
    /\ ~panicked /\ wpc[w] = "start"
    /\ waitGroup' = waitGroup + 1
    /\ wpc' = [wpc EXCEPT ![w] = "recv"]
    /\ UNCHANGED <<store, now, deliveryChan, deliveryChanForDelayedQueue,
                   chanState, delayedChanState, prefetchLimit,
                   consumingStopped, pushKey, numConsumers, panicked, rpoll,
                   dpoll, wdel, wcall, wres, wtmp, wscore, wops, retvars, aux,
                   hist>>

\* for delivery := range channel: a buffered delivery is received, also
\* from a closed channel, and passed to consumer.Consume; a closed and
\* empty channel ends the loop and the deferred decreaseConsumerCount()
\* runs.  consLog lists the payloads the ready-path workers were handed,
\* consDelayed holds the payloads the delayed-path workers were handed.
WorkerRecv(w) ==
    /\ ~panicked /\ wpc[w] = "recv"
    /\ IF chanOf(w) # <<>>
       THEN /\ wdel' = [wdel EXCEPT ![w] = Head(chanOf(w))]
            /\ wpc' = [wpc EXCEPT ![w] = "consume"]
            /\ wops' = [wops EXCEPT ![w] = 0]
            /\ IF w[2] = "ready"
               THEN /\ deliveryChan' = Tail(deliveryChan)
                    /\ consLog' = Log(consLog, Head(deliveryChan).payload)
                    /\ UNCHANGED <<deliveryChanForDelayedQueue, consDelayed>>
               ELSE /\ deliveryChanForDelayedQueue' = Tail(deliveryChanForDelayedQueue)
                    /\ consDelayed' =
                          IF logging
                          THEN consDelayed \cup {Head(deliveryChanForDelayedQueue).payload}
                          ELSE consDelayed
                    /\ UNCHANGED <<deliveryChan, consLog>>
            /\ UNCHANGED waitGroup
       ELSE /\ chanStateOf(w) = "closed"
            /\ wpc' = [wpc EXCEPT ![w] = "done"]
            /\ waitGroup' = waitGroup - 1
            /\ UNCHANGED <<wdel, wops, deliveryChan,
                           deliveryChanForDelayedQueue, consLog, consDelayed>>
    /\ UNCHANGED <<store, now, chanState, delayedChanState, prefetchLimit,
                   consumingStopped, pushKey, numConsumers, panicked, rpoll,
                   dpoll, wcall, wres, wtmp, wscore, retvars, aux, pubLog, npub,
                   nret, notBefore, logging>>

\* The callback returns and the worker goes back to its receive.
ConsumeReturn(w) ==
    /\ ~panicked /\ wpc[w] = "consume"
    /\ wpc' = [wpc EXCEPT ![w] = "recv"]
    /\ wdel' = [wdel EXCEPT ![w] = NoDelivery]
    /\ wcall' = [wcall EXCEPT ![w] = "none"]
    /\ wres' = [wres EXCEPT ![w] = FALSE]
    /\ wops' = [wops EXCEPT ![w] = 0]
    /\ UNCHANGED <<store, now, queue, panicked, rpoll, dpoll, wtmp, wscore,
                   retvars, aux, hist>>

\* ----------------------------------------------------- the delivery handle
\* While the callback runs, wcall[w] names the handle's method it called
\* last and wres[w] is what that call returned (FALSE until it returns).

\* Ack's result: result.Val() == 1.
AckResult(removed) == removed = 1

\* Ack: LREM unackedKey 1 payload.
Ack(w) ==
    /\ ~panicked /\ wpc[w] = "consume" /\ wops[w] < MaxOps
    /\ unacked' = LRem(unacked, wdel[w].payload)
    /\ wcall' = [wcall EXCEPT ![w] = "Ack"]
    /\ wres' = [wres EXCEPT ![w] = AckResult(LRemCount(unacked, wdel[w].payload))]
    /\ wops' = [wops EXCEPT ![w] = @ + 1]
    /\ UNCHANGED <<ready, rejected, delayed, pushReady, now, queue, panicked,
                   rpoll, dpoll, wpc, wdel, wtmp, wscore, retvars, aux, hist>>

\* Reject: move(rejectedKey), first command: LPUSH rejectedKey payload.
Reject(w) ==
    /\ ~panicked /\ wpc[w] = "consume" /\ wops[w] < MaxOps
    /\ rejected' = LPush(rejected, wdel[w].payload)
    /\ wpc' = [wpc EXCEPT ![w] = "moveLRem"]
    /\ wcall' = [wcall EXCEPT ![w] = "Reject"]
    /\ wres' = [wres EXCEPT ![w] = FALSE]
    /\ UNCHANGED <<ready, unacked, delayed, pushReady, now, queue, panicked,
                   rpoll, dpoll, wdel, wtmp, wscore, wops, retvars, aux, hist>>

\* Push: move(pushKey) when the handle has a push key, else
\* move(rejectedKey); first command.
Push(w) ==
    /\ ~panicked /\ wpc[w] = "consume" /\ wops[w] < MaxOps
    /\ IF wdel[w].pushKey # ""
       THEN /\ pushReady' = LPush(pushReady, wdel[w].payload)
            /\ UNCHANGED rejected
       ELSE /\ rejected' = LPush(rejected, wdel[w].payload)
            /\ UNCHANGED pushReady
    /\ wpc' = [wpc EXCEPT ![w] = "moveLRem"]
    /\ wcall' = [wcall EXCEPT ![w] = "Push"]
    /\ wres' = [wres EXCEPT ![w] = FALSE]
    /\ UNCHANGED <<ready, unacked, delayed, now, queue, panicked, rpoll,
                   dpoll, wdel, wtmp, wscore, wops, retvars, aux, hist>>

\* move's result: neither reply is redis.Nil (LPUSH and LREM reply with an
\* integer), so move returns true whatever LREM removed.
moveResult(removed) == TRUE

\* move, second command: LREM unackedKey 1 payload.
MoveLRem(w) ==
    /\ ~panicked /\ wpc[w] = "moveLRem"
    /\ unacked' = LRem(unacked, wdel[w].payload)
    /\ wpc' = [wpc EXCEPT ![w] = "consume"]
    /\ wres' = [wres EXCEPT ![w] = moveResult(LRemCount(unacked, wdel[w].payload))]
    /\ wops' = [wops EXCEPT ![w] = @ + 1]
    /\ UNCHANGED <<ready, rejected, delayed, pushReady, now, queue, panicked,
                   rpoll, dpoll, wdel, wcall, wtmp, wscore, retvars, aux, hist>>

\* Delay, first command: ZADD delayedKey (now + duration) payload.
Delay(w, d) ==
    /\ ~panicked /\ wpc[w] = "consume" /\ wops[w] < MaxOps
    /\ delayed' = ZAdd(delayed, wdel[w].payload, now + d)
    /\ wtmp' = [wtmp EXCEPT ![w] = ZAddCount(delayed, wdel[w].payload)]
    /\ wscore' = [wscore EXCEPT ![w] = now + d]
    /\ wpc' = [wpc EXCEPT ![w] = "delayLRem"]
    /\ wcall' = [wcall EXCEPT ![w] = "Delay"]
    /\ wres' = [wres EXCEPT ![w] = FALSE]
    /\ UNCHANGED <<ready, unacked, rejected, pushReady, now, queue, panicked,
                   rpoll, dpoll, wdel, wops, retvars, aux, hist>>

\* Delay's result: zAddResult.Val() == 1 && lRemResult.Val() == 1.
DelayResult(added, removed) == added = 1 /\ removed = 1

\* Delay, second command: LREM unackedKey 1 payload.  notBefore[p] is the
\* due time of the last PublishToDelayedQueue of p or Delay of p that
\* returned true.
DelayLRem(w) ==
    /\ ~panicked /\ wpc[w] = "delayLRem"
    /\ unacked' = LRem(unacked, wdel[w].payload)
    /\ wpc' = [wpc EXCEPT ![w] = "consume"]
    /\ wres' = [wres EXCEPT ![w] =
                  DelayResult(wtmp[w], LRemCount(unacked, wdel[w].payload))]
    /\ notBefore' = IF logging /\ wres'[w]
                    THEN [notBefore EXCEPT ![wdel[w].payload] = wscore[w]]
                    ELSE notBefore
    /\ wtmp' = [wtmp EXCEPT ![w] = 0]
    /\ wscore' = [wscore EXCEPT ![w] = 0]
    /\ wops' = [wops EXCEPT ![w] = @ + 1]
    /\ UNCHANGED <<ready, rejected, delayed, pushReady, now, queue, panicked,
                   rpoll, dpoll, wdel, wcall, retvars, aux, pubLog, consLog,
                   consDelayed, npub, nret, logging>>

\* ------------------------------------------------------- ReturnRejected
\* ReturnRejected(count) is called: retcall keeps the argument and the
\* lengths of Rejected and Ready at the call.
ReturnRejected(n) ==
    /\ retpc = "idle" /\ nret < MaxReturn
    /\ nret' = nret + 1
    /\ retcall' = [op |-> "ReturnRejected", count |-> n,
                   rejected |-> Len(rejected), ready |-> Len(ready)]
    /\ retpc' = "loop" /\ retleft' = n /\ retmoved' = 0
    /\ UNCHANGED <<store, now, queue, panicked, rpoll, dpoll, wrk, aux, retval,
                   logging, pubLog, consLog, consDelayed, npub, notBefore>>

\* ReturnAllRejected: LLEN rejectedKey, then ReturnRejected(that count).
ReturnAllRejected ==
    /\ retpc = "idle" /\ nret < MaxReturn
    /\ nret' = nret + 1
    /\ retcall' = [op |-> "ReturnAllRejected", count |-> LLen(rejected),
                   rejected |-> Len(rejected), ready |-> Len(ready)]
    /\ retpc' = "loop" /\ retleft' = LLen(rejected) /\ retmoved' = 0
    /\ UNCHANGED <<store, now, queue, panicked, rpoll, dpoll, wrk, aux, retval,
                   logging, pubLog, consLog, consDelayed, npub, notBefore>>

\* ReturnRejected's loop: with no iteration left it returns count (0 for a
\* count of 0); an iteration is RPOPLPUSH rejectedKey readyKey, and a nil
\* reply returns i.
ReturnRejectedStep ==
    /\ retpc = "loop"
    /\ IF retleft = 0
       THEN /\ retval' = retcall.count
            /\ retpc' = "idle" /\ retmoved' = 0 /\ retcall' = NoReturn
            /\ UNCHANGED <<ready, rejected, retleft>>
       ELSE IF RPopIsNil(rejected)
       THEN /\ retval' = retmoved
            /\ retpc' = "idle" /\ retleft' = 0 /\ retmoved' = 0
            /\ retcall' = NoReturn
            /\ UNCHANGED <<ready, rejected>>
       ELSE /\ ready' = RPopDst(rejected, ready)
            /\ rejected' = RPopSrc(rejected)
            /\ retleft' = retleft - 1 /\ retmoved' = retmoved + 1
            /\ UNCHANGED <<retpc, retcall, retval>>
    /\ UNCHANGED <<unacked, delayed, pushReady, now, queue, panicked, rpoll,
                   dpoll, wrk, aux, hist>>

\* ----------------------------------------------------- ReturnAllUnacked
\* ReturnAllUnacked is called: unackedCount is LLEN unackedKey; retcall
\* keeps it with the lengths of Rejected and Ready at the call.
ReturnAllUnacked ==
    /\ retpc = "idle" /\ nret < MaxReturn
    /\ nret' = nret + 1
    /\ retcall' = [op |-> "ReturnAllUnacked", count |-> LLen(unacked),
                   rejected |-> Len(rejected), ready |-> Len(ready)]
    /\ retpc' = "unacked" /\ retleft' = LLen(unacked) /\ retmoved' = 0
    /\ UNCHANGED <<store, now, queue, panicked, rpoll, dpoll, wrk, aux, retval,
                   logging, pubLog, consLog, consDelayed, npub, notBefore>>

\* ReturnAllUnacked's loop: with no iteration left it returns
\* unackedCount; an iteration is RPOPLPUSH unackedKey readyKey, and a nil
\* reply returns i.
ReturnUnackedStep ==
    /\ retpc = "unacked"
    /\ IF retleft = 0
       THEN /\ retval' = retcall.count
            /\ retpc' = "idle" /\ retmoved' = 0 /\ retcall' = NoReturn
            /\ UNCHANGED <<ready, unacked, retleft>>
       ELSE IF RPopIsNil(unacked)
       THEN /\ retval' = retmoved
            /\ retpc' = "idle" /\ retleft' = 0 /\ retmoved' = 0
            /\ retcall' = NoReturn
            /\ UNCHANGED <<ready, unacked>>
       ELSE /\ ready' = RPopDst(unacked, ready)
            /\ unacked' = RPopSrc(unacked)
            /\ retleft' = retleft - 1 /\ retmoved' = retmoved + 1
            /\ UNCHANGED <<retpc, retcall, retval>>
    /\ UNCHANGED <<rejected, delayed, pushReady, now, queue, panicked, rpoll,
                   dpoll, wrk, aux, hist>>

\* ---------------------------------------------------- the batch workers
\* A variant of the code: stopTimer without the drain of timer.C.
stopTimerOnly(t, c) == [timer |-> "stopped", timerC |-> c]

\* stopTimer(timer): timer.Stop() stops an armed timer and returns true;
\* on a timer that has expired or was stopped it returns false, and then a
\* value waiting in timer.C is received (select with default).
stopTimer(t, c) ==
    IF t = "armed"
    THEN [timer |-> "stopped", timerC |-> c]
    ELSE [timer |-> t, timerC |-> "empty"]

\* A variant of the code: the first delivery of a batch leaves the timer
\* as it is.
ResetNot(t) == t

\* timer.Reset(timeout): the timer is armed to fire after timeout.
Reset(t) == "armed"

\* AddBatchConsumerWithTimeout(tag, batchSize, timeout, consumer):
\* addConsumer panics when StartConsuming was not called; otherwise the
\* two batch workers are launched.
AddBatchConsumerWithTimeout(n) ==
    /\ ~panicked
    /\ \A path \in Paths : bpc[path] = "none"
    /\ IF chanState = "nil"
       THEN /\ panicked' = TRUE
            /\ UNCHANGED <<bpc, bsize>>
       ELSE /\ bpc' = [path \in Paths |-> "start"]
            /\ bsize' = n
            /\ UNCHANGED panicked
    /\ UNCHANGED <<store, now, queue, rpoll, dpoll, wrk, retvars, purgevars,
                   lifevars, batch, timer, timerC, armedFor, flushed, hist>>

\* batch := make([]Delivery, 0); timer := time.NewTimer(timeout).
BatchStart(path) ==
    /\ ~panicked /\ bpc[path] = "start"
    /\ batch' = [batch EXCEPT ![path] = <<>>]
    /\ timer' = [timer EXCEPT ![path] = "armed"]
    /\ bpc' = [bpc EXCEPT ![path] = "stop"]
    /\ UNCHANGED <<store, now, queue, panicked, rpoll, dpoll, wrk, retvars,
                   purgevars, lifevars, bsize, timerC, armedFor, flushed,
                   hist>>

\* The runtime fires an armed timer: the timer has expired and the time is
\* sent to timer.C, which has room for one value.
TimerFire(path) ==
    /\ ~panicked /\ timer[path] = "armed"
    /\ timer' = [timer EXCEPT ![path] = "expired"]
    /\ timerC' = [timerC EXCEPT ![path] =
                     IF timerC[path] # "empty" THEN timerC[path]
                     ELSE IF armedFor[path] THEN "own" ELSE "stale"]
    /\ UNCHANGED <<store, now, queue, panicked, rpoll, dpoll, wrk, retvars,
                   purgevars, lifevars, bpc, bsize, batch, armedFor, flushed,
                   hist>>

\* stopTimer(timer) // timer not active yet; increaseConsumerCount().
BatchStopFirst(path) ==
    /\ ~panicked /\ bpc[path] = "stop"
    /\ timer' = [timer EXCEPT ![path] = stopTimer(timer[path], timerC[path]).timer]
    /\ timerC' = [timerC EXCEPT ![path] = stopTimer(timer[path], timerC[path]).timerC]
    /\ waitGroup' = waitGroup + 1
    /\ bpc' = [bpc EXCEPT ![path] = "select"]
    /\ UNCHANGED <<store, now, deliveryChan, deliveryChanForDelayedQueue,
                   chanState, delayedChanState, prefetchLimit,
                   consumingStopped, pushKey, numConsumers, panicked, rpoll,
                   dpoll, wrk, retvars, purgevars, lifevars, bsize, batch,
                   armedFor, flushed, hist>>

\* case <-timer.C: the batch is passed to consumer.Consume.
BatchTimerCase(path) ==
    /\ ~panicked /\ bpc[path] = "select"
    /\ timerC[path] # "empty"
    /\ timerC' = [timerC EXCEPT ![path] = "empty"]
    /\ flushed' = [flushed EXCEPT ![path] =
                      [size |-> Len(batch[path]), cause |-> timerC[path]]]
    /\ bpc' = [bpc EXCEPT ![path] = "consume"]
    /\ UNCHANGED <<store, now, queue, panicked, rpoll, dpoll, wrk, retvars,
                   purgevars, lifevars, bsize, batch, timer, armedFor, hist>>

\* case delivery, ok := <-channel: a closed and empty channel ends the
\* worker (the batch it holds is not passed on).  Otherwise the delivery is
\* appended, the first delivery of a batch arms the timer, and a batch
\* shorter than batchSize goes on waiting; else it is passed to
\* consumer.Consume.
BatchRecvCase(path) ==
    /\ ~panicked /\ bpc[path] = "select"
    /\ LET w == <<1, path>>
           got == Append(batch[path], Head(chanOf(w)))
       IN  IF chanOf(w) # <<>>
           THEN /\ IF path = "ready"
                   THEN /\ deliveryChan' = Tail(deliveryChan)
                        /\ UNCHANGED deliveryChanForDelayedQueue
                   ELSE /\ deliveryChanForDelayedQueue' = Tail(deliveryChanForDelayedQueue)
                        /\ UNCHANGED deliveryChan
                /\ batch' = [batch EXCEPT ![path] = got]
                /\ IF Len(got) = 1
                   THEN /\ timer' = [timer EXCEPT ![path] = Reset(timer[path])]
                        /\ armedFor' = [armedFor EXCEPT ![path] = TRUE]
                   ELSE UNCHANGED <<timer, armedFor>>
                /\ IF Len(got) < bsize
                   THEN UNCHANGED <<bpc, flushed>>
                   ELSE /\ bpc' = [bpc EXCEPT ![path] = "consume"]
                        /\ flushed' = [flushed EXCEPT ![path] =
                                          [size |-> Len(got), cause |-> "size"]]
                /\ UNCHANGED waitGroup
           ELSE /\ chanStateOf(w) = "closed"
                /\ bpc' = [bpc EXCEPT ![path] = "done"]
                /\ waitGroup' = waitGroup - 1
                /\ UNCHANGED <<deliveryChan, deliveryChanForDelayedQueue,
                               batch, timer, armedFor, flushed>>
    /\ UNCHANGED <<store, now, chanState, delayedChanState, prefetchLimit,
                   consumingStopped, pushKey, numConsumers, panicked, rpoll,
                   dpoll, wrk, retvars, purgevars, lifevars, bsize, timerC,
                   hist>>

\* consumer.Consume(batch) returns; batch = batch[:0]; stopTimer(timer).
\* What the timer holds from now on was armed for an earlier batch.
BatchReset(path) ==
    /\ ~panicked /\ bpc[path] = "consume"
    /\ batch' = [batch EXCEPT ![path] = <<>>]
    /\ armedFor' = [armedFor EXCEPT ![path] = FALSE]
    /\ LET c == IF timerC[path] = "own" THEN "stale" ELSE timerC[path]
       IN  /\ timer' = [timer EXCEPT ![path] = stopTimer(timer[path], c).timer]
           /\ timerC' = [timerC EXCEPT ![path] = stopTimer(timer[path], c).timerC]
    /\ bpc' = [bpc EXCEPT ![path] = "select"]
    /\ UNCHANGED <<store, now, queue, panicked, rpoll, dpoll, wrk, retvars,
                   purgevars, lifevars, bsize, flushed, hist>>

\* A batch worker's own steps.
BatchWorker(path) ==
    \/ BatchStart(path)
    \/ BatchStopFirst(path)
    \/ BatchTimerCase(path)
    \/ BatchRecvCase(path)
    \/ BatchReset(path)

\* ------------------------------------------------------------------ purge
purgeBatchSize == 100

\* deleteRedisList(key) / deleteRedisZSet(key), the call: LLEN key or
\* ZCOUNT key -inf +inf gives total, and the loop starts with todo = total.
\* A total of 0 returns 0, as the loop does when it has nothing to do.
PurgeCall(key) ==
    /\ ~panicked /\ ppc = "idle"
    /\ pkey' = key
    /\ ptotal' = CASE key = "ready" -> LLen(ready)
                   [] key = "rejected" -> LLen(rejected)
                   [] key = "delayed" -> ZCount(delayed)
    /\ psize' = CASE key = "ready" -> Len(ready)
                  [] key = "rejected" -> Len(rejected)
                  [] key = "delayed" -> Cardinality({p \in DOMAIN delayed :
                                                       delayed[p] # NoScore})
    /\ ptodo' = ptotal'
    /\ ppc' = "loop"
    /\ UNCHANGED <<store, now, queue, panicked, rpoll, dpoll, wrk, retvars,
                   pret, lifevars, batchvars, hist>>

PurgeReady == PurgeCall("ready")

PurgeRejected == PurgeCall("rejected")

PurgeDelayed == PurgeCall("delayed")

\* One round of the loop "for todo := total; todo > 0; todo -=
\* purgeBatchSize": LTRIM key 0 (-1-batchSize) on a list, ZREMRANGEBYRANK
\* key 0 batchSize on the sorted set, with batchSize the smaller of
\* purgeBatchSize and todo; after the loop total is returned.
PurgeStep ==
    /\ ~panicked /\ ppc = "loop"
    /\ IF ptodo > 0
       THEN /\ LET n == Min(purgeBatchSize, ptodo)
               IN  /\ ready' = IF pkey = "ready"
                               THEN LTrim(ready, 0, -1 - n) ELSE ready
                   /\ rejected' = IF pkey = "rejected"
                                  THEN LTrim(rejected, 0, -1 - n) ELSE rejected
                   /\ delayed' = IF pkey = "delayed"
                                 THEN ZRemRangeByRank(delayed, n) ELSE delayed
            /\ ptodo' = ptodo - purgeBatchSize
            /\ UNCHANGED <<ppc, pkey, ptotal, pret, psize>>
       ELSE /\ pret' = ptotal
            /\ ppc' = "idle"
            /\ UNCHANGED <<ready, rejected, delayed, pkey, ptotal, ptodo, psize>>
    /\ UNCHANGED <<unacked, pushReady, now, queue, panicked, rpoll, dpoll, wrk,
                   retvars, lifevars, batchvars, hist>>

\* ------------------------------------------------------ the specifications
Delays == 0..MaxTime

PublishAny == \E p \in Payloads : Publish(p)

PublishDelayedAny ==
    \E p \in Payloads, d \in Delays :
        now + d <= MaxTime /\ PublishToDelayedQueue(p, d)

\* Payload k is the k-th payload published, so that no payload is published
\* twice.
PublishDelayedNext ==
    \E d \in Delays :
        /\ npub < NumPayloads /\ now + d <= MaxTime
        /\ PublishToDelayedQueue(npub + 1, d)

StartAny == \E n \in 1..MaxPrefetch : StartConsuming(n)

ReadyPoller ==
    \/ ConsumeLen
    \/ ConsumeBatchSize
    \/ ConsumeBatchPop
    \/ ConsumeBatchSend
    \/ ConsumeCheck

DelayedPoller ==
    \/ DelayedLen
    \/ DelayedBatchSize
    \/ DelayedNow
    \/ DelayedEval
    \/ DelayedSend
    \/ DelayedCheck

\* A worker's own steps, the callback's return included.
Worker(w) == WorkerStart(w) \/ WorkerRecv(w) \/ ConsumeReturn(w)

\* The same with callbacks that return after a call on the handle.
HandlingWorker(w) ==
    \/ WorkerStart(w)
    \/ WorkerRecv(w)
    \/ wops[w] > 0 /\ ConsumeReturn(w)

\* Delay with a duration that ends later than now.
DelayLater(w) == \E d \in Delays \ {0} : now + d <= MaxTime /\ Delay(w, d)

\* Both paths, with consumers that acknowledge every delivery before
\* Consume returns.
Next ==
    \/ PublishAny
    \/ PublishDelayedAny
    \/ Tick
    \/ chanState = "nil" /\ StartAny
    \/ AddConsumer
    \/ ReadyPoller
    \/ DelayedPoller
    \/ \E w \in Workers : HandlingWorker(w)
    \/ \E w \in Workers : wops[w] = 0 /\ Ack(w)

Spec == Init /\ [][Next]_vars

\* The ready path: Delayed stays empty, so the delayed poller's iterations
\* change nothing and are left out.
NextReady ==
    \/ PublishAny
    \/ chanState = "nil" /\ StartAny
    \/ AddConsumer
    \/ ReadyPoller
    \/ \E w \in Workers : Worker(w)
    \/ \E w \in Workers : Ack(w)

SpecReady == InitLogged /\ [][NextReady]_vars

\* The ready path under fair scheduling: payload k is the k-th payload
\* published, the ready-path workers run and their callbacks acknowledge.
NextLive ==
    \/ npub < NumPayloads /\ Publish(npub + 1)
    \/ chanState = "nil" /\ StartAny
    \/ AddConsumer
    \/ ReadyPoller
    \/ \E w \in Workers : w[2] = "ready" /\ Worker(w)
    \/ \E w \in Workers : wops[w] = 0 /\ Ack(w)

SpecLive ==
    /\ InitLogged /\ [][NextLive]_vars
    /\ WF_vars(ReadyPoller)
    /\ \A w \in Workers : WF_vars(w[2] = "ready" /\ Worker(w))

\* The delivery handle on deliveries of the ready path: payloads published
\* before consumption starts, one consumer.
NextHandle ==
    \/ chanState = "nil" /\ PublishAny
    \/ chanState = "nil" /\ SetPushQueue
    \/ chanState = "nil" /\ StartConsuming(MaxPrefetch)
    \/ numConsumers = 0 /\ AddConsumer
    \/ ReadyPoller
    \/ \E w \in Workers : Worker(w)
    \/ \E w \in Workers : Ack(w)
    \/ \E w \in Workers : Reject(w)
    \/ \E w \in Workers : Push(w)
    \/ \E w \in Workers : MoveLRem(w)
    \/ \E w \in Workers : Delay(w, 0)
    \/ \E w \in Workers : DelayLRem(w)

SpecHandle == Init /\ [][NextHandle]_vars

\* Ack among Reject and Delay, which leave payloads in Rejected and Delayed.
NextAck ==
    \/ chanState = "nil" /\ PublishAny
    \/ chanState = "nil" /\ StartConsuming(MaxPrefetch)
    \/ numConsumers = 0 /\ AddConsumer
    \/ ReadyPoller
    \/ \E w \in Workers : Worker(w)
    \/ \E w \in Workers : Ack(w)
    \/ \E w \in Workers : Reject(w)
    \/ \E w \in Workers : MoveLRem(w)
    \/ \E w \in Workers : Delay(w, 0)
    \/ \E w \in Workers : DelayLRem(w)

SpecAck == Init /\ [][NextAck]_vars

\* The delayed path: every payload is published once, and a callback makes
\* one call on its handle, Ack or Delay with a duration that ends later
\* than now, and returns.
NextDelayed ==
    \/ PublishDelayedNext
    \/ Tick
    \/ chanState = "nil" /\ StartAny
    \/ AddConsumer
    \/ DelayedPoller
    \/ \E w \in Workers : HandlingWorker(w)
    \/ \E w \in Workers : wops[w] = 0 /\ Ack(w)
    \/ \E w \in Workers : wops[w] = 0 /\ DelayLater(w)
    \/ \E w \in Workers : DelayLRem(w)

SpecDelayed ==
    /\ InitLogged /\ [][NextDelayed]_vars
    /\ WF_vars(Tick)
    /\ WF_vars(DelayedPoller)
    /\ \A w \in Workers : WF_vars(HandlingWorker(w))
    /\ \A w \in Workers : WF_vars((wops[w] = 0 /\ Ack(w)) \/ DelayLRem(w))

\* Rejecting and returning: payloads published before consumption starts,
\* one consumer that rejects, and a return call that runs with nothing else.
Quiet == retpc = "idle"

NextReturn ==
    \/ Quiet /\ chanState = "nil" /\ PublishAny
    \/ Quiet /\ chanState = "nil" /\ StartConsuming(MaxPrefetch)
    \/ Quiet /\ numConsumers = 0 /\ AddConsumer
    \/ Quiet /\ ReadyPoller
    \/ Quiet /\ \E w \in Workers : Worker(w)
    \/ Quiet /\ \E w \in Workers : wops[w] = 0 /\ Reject(w)
    \/ Quiet /\ \E w \in Workers : MoveLRem(w)
    \/ \E n \in 0..(MaxPublish + 1) : ReturnRejected(n)
    \/ ReturnAllRejected
    \/ ReturnRejectedStep

SpecReturn == Init /\ [][NextReturn]_vars

\* The lifecycle: StartConsuming and StopConsuming called any number of
\* times on a queue with payloads in Ready, Delayed empty.
NextLife ==
    \/ npub < NumPayloads /\ Publish(npub + 1)
    \/ StartAny
    \/ StopConsuming
    \/ AddConsumer
    \/ ReadyPoller
    \/ ConsumeDrain
    \/ DelayedLen
    \/ DelayedBatchSize
    \/ DelayedCheck
    \/ DelayedDrain
    \/ \E w \in Workers : Worker(w)

SpecLife == Init /\ [][NextLife]_vars

\* Stopping: both paths, StopConsuming and WaitForConsuming, under fair
\* scheduling of the pollers, the workers and the waiting caller.
NextStop ==
    \/ npub < NumPayloads /\ Publish(npub + 1)
    \/ PublishDelayedNext
    \/ Tick
    \/ chanState = "nil" /\ StartAny
    \/ StopConsuming
    \/ AddConsumer
    \/ ReadyPoller
    \/ ConsumeDrain
    \/ DelayedPoller
    \/ DelayedDrain
    \/ \E w \in Workers : Worker(w)
    \/ WaitCall
    \/ WaitReturn

SpecStop ==
    /\ Init /\ [][NextStop]_vars
    /\ WF_vars(ReadyPoller \/ ConsumeDrain)
    /\ WF_vars(DelayedPoller \/ DelayedDrain)
    /\ \A w \in Workers : WF_vars(Worker(w))
    /\ WF_vars(WaitReturn)

\* Normal operation on both paths at one instant with a prefetch limit of
\* 1: payload k is the k-th payload published, to Ready or to Delayed, and
\* a callback makes one call on its handle.
NextRest ==
    \/ npub < NumPayloads /\ Publish(npub + 1)
    \/ PublishDelayedNext
    \/ chanState = "nil" /\ StartConsuming(1)
    \/ AddConsumer
    \/ ReadyPoller
    \/ DelayedPoller
    \/ \E w \in Workers : HandlingWorker(w)
    \/ \E w \in Workers : wops[w] = 0 /\ Ack(w)
    \/ \E w \in Workers : wops[w] = 0 /\ Reject(w)
    \/ \E w \in Workers : wops[w] = 0 /\ DelayLater(w)
    \/ \E w \in Workers : MoveLRem(w)
    \/ \E w \in Workers : DelayLRem(w)
    \/ ReturnAllRejected
    \/ ReturnRejectedStep

SpecRest == Init /\ [][NextRest]_vars

\* Batch consuming on the ready path under fair scheduling of the timers
\* and the batch workers: payload k is the k-th payload published, the
\* queue may be stopped, and the callbacks return.
NextBatch ==
    \/ npub < NumPayloads /\ Publish(npub + 1)
    \/ chanState = "nil" /\ StartAny
    \/ StopConsuming
    \/ \E n \in 1..MaxBatch : AddBatchConsumerWithTimeout(n)
    \/ ReadyPoller
    \/ ConsumeDrain
    \/ \E path \in Paths : BatchWorker(path)
    \/ \E path \in Paths : TimerFire(path)

SpecBatch ==
    /\ Init /\ [][NextBatch]_vars
    /\ \A path \in Paths : WF_vars(BatchWorker(path))
    /\ \A path \in Paths : WF_vars(TimerFire(path))

\* The handle's calls on the ready path: payload k is the k-th payload
\* published, and the callbacks of one consumer's ready-path worker call
\* Ack, Reject, Push and Delay.
NextMove ==
    \/ chanState = "nil" /\ npub < NumPayloads /\ Publish(npub + 1)
    \/ chanState = "nil" /\ SetPushQueue
    \/ chanState = "nil" /\ StartConsuming(MaxPrefetch)
    \/ numConsumers = 0 /\ AddConsumer
    \/ ReadyPoller
    \/ \E w \in Workers : w[2] = "ready" /\ Worker(w)
    \/ \E w \in Workers : Ack(w)
    \/ \E w \in Workers : Reject(w)
    \/ \E w \in Workers : Push(w)
    \/ \E w \in Workers : MoveLRem(w)
    \/ \E w \in Workers : Delay(w, 0)
    \/ \E w \in Workers : DelayLRem(w)

SpecMove == Init /\ [][NextMove]_vars

\* ReturnAllUnacked on what the ready path left in Unacked: between calls
\* the queue is filled and consumed, and while a call runs the only other
\* steps are Acks of the deliveries the callbacks hold.
NextUnacked ==
    \/ Quiet /\ chanState = "nil" /\ PublishAny
    \/ Quiet /\ chanState = "nil" /\ StartConsuming(MaxPrefetch)
    \/ Quiet /\ numConsumers = 0 /\ AddConsumer
    \/ Quiet /\ ReadyPoller
    \/ Quiet /\ \E w \in Workers : w[2] = "ready" /\ Worker(w)
    \/ ~Quiet /\ \E w \in Workers : wops[w] = 0 /\ Ack(w)
    \/ (\A w \in Workers : wcall[w] = "none") /\ ReturnAllUnacked
    \/ ReturnUnackedStep

SpecUnacked == Init /\ [][NextUnacked]_vars

\* The delayed path with one consumer whose callbacks return: payload k is
\* the k-th payload published, with any due time.
NextOrder ==
    \/ PublishDelayedNext
    \/ Tick
    \/ chanState = "nil" /\ StartAny
    \/ numConsumers = 0 /\ AddConsumer
    \/ DelayedPoller
    \/ \E w \in Workers : w[2] = "delayed" /\ Worker(w)

SpecOrder == InitLogged /\ [][NextOrder]_vars

\* Starting, stopping and consuming on both paths: payload k is the k-th
\* payload published, to Ready or as a due entry of Delayed, before the
\* queue is started, and the callers' StartConsuming and StopConsuming
\* calls and one AddConsumer call come at any moment.
NextClose ==
    \/ chanState = "nil" /\ npub < NumPayloads /\ Publish(npub + 1)
    \/ chanState = "nil" /\ npub < NumPayloads /\ PublishToDelayedQueue(npub + 1, 0)
    \/ StartAny
    \/ StopConsuming
    \/ numConsumers = 0 /\ AddConsumer
    \/ ReadyPoller
    \/ ConsumeDrain
    \/ DelayedPoller
    \/ DelayedDrain
    \/ \E w \in Workers : Worker(w)

SpecClose == Init /\ [][NextClose]_vars

\* Purging structures of every size n up to MaxPurge, with nothing else
\* running: the lists hold n copies of one payload, the sorted set holds
\* the members 1..n.
InitPurge ==
    /\ \E n \in 0..MaxPurge :
           /\ ready = [i \in 1..n |-> 1]
           /\ rejected = [i \in 1..n |-> 1]
           /\ delayed = [p \in 1..n |-> IF p <= purgeBatchSize THEN 0 ELSE MaxTime]
    /\ unacked = <<>> /\ pushReady = <<>>
    /\ InitObject(FALSE)

NextPurge ==
    \/ PurgeReady
    \/ PurgeRejected
    \/ PurgeDelayed
    \/ PurgeStep

SpecPurge == InitPurge /\ [][NextPurge]_vars

\* ------------------------------------------------------------ properties
\* The queue is consuming: StartConsuming done, StopConsuming not called,
\* the process alive.
Consuming == chanState = "open" /\ consumingStopped = 0 /\ ~panicked

PrefetchBound ==
    Consuming => Len(unacked) <= prefetchLimit + numConsumers

\* C3 (SpecHandle): a Reject, Push or Delay that returns true has removed
\* one occurrence of the payload from Unacked.
TrueResultRemoved ==
    [][\A w \in Workers :
          ((MoveLRem(w) \/ DelayLRem(w)) /\ wres'[w])
              => Occ(unacked', wdel[w].payload)
                     = Occ(unacked, wdel[w].payload) - 1]_vars

\* C4 (SpecAck): Ack returns true exactly when it removed one occurrence
\* of the payload from Unacked; Unacked is then one shorter, after a false
\* return it is unchanged, and Ready, Rejected and Delayed are unchanged
\* either way.
AckRemovesOne ==
    [][\A w \in Workers :
          Ack(w) =>
              /\ wres'[w] <=> Occ(unacked', wdel[w].payload)
                                  = Occ(unacked, wdel[w].payload) - 1
              /\ wres'[w] => Len(unacked') = Len(unacked) - 1
              /\ ~wres'[w] => unacked' = unacked
              /\ UNCHANGED <<ready, rejected, delayed>>]_vars

\* An Ack returned false on a payload that Reject had moved to Rejected.
AckRemovesOneWitness ==
    \E w \in Workers :
        /\ wpc[w] = "consume" /\ wcall[w] = "Ack" /\ ~wres[w]
        /\ wdel[w].payload \in Range(rejected)
        /\ unacked # <<>>

\* C5 (SpecDelayed): delay monotonic.  A delayed-path worker is handed a
\* payload no earlier than the due time of the last PublishToDelayedQueue
\* or successful Delay of that payload.
DelayMonotonic ==
    [][\A w \in Workers :
          (w[2] = "delayed" /\ WorkerRecv(w) /\ wpc'[w] = "consume")
              => now >= notBefore[wdel'[w].payload]]_vars

\* C6 (SpecDelayed): a run of the promotion script leaves every entry of
\* Delayed whose score is later than the script's now in Delayed, with its
\* score.
PromotionLeavesNotDue ==
    [][DelayedEval =>
          \A p \in Payloads :
              (delayed[p] # NoScore /\ delayed[p] > dnow)
                  => delayed'[p] = delayed[p]]_vars

\* C7 (SpecDelayed): what the delayed poller is about to inject after a run
\* of the script are payloads that this run promoted, at most batchSize of
\* them.
InjectsPromoted ==
    dpc = "send" =>
        /\ \A i \in 1..Len(dvals) : dvals[i].payload \in dpromoted
        /\ Len(dvals) <= dbatch

\* C8 (SpecDelayed): delayed delivery liveness.  On a consuming queue with
\* a registered consumer a payload published with PublishToDelayedQueue is
\* eventually handed to a delayed-path worker, under weak fairness of the
\* clock, the delayed poller and the workers.
DelayedEventuallyConsumed ==
    \A p \in Payloads :
        (p <= npub /\ Consuming /\ numConsumers >= 1) ~> (p \in consDelayed)

\* C9 (SpecReady): ordering under a single consumer.  With one registered
\* consumer, what the ready-path worker was handed is a prefix of what was
\* published, in the order of the Publish calls.
SingleConsumerOrder ==
    numConsumers <= 1 => IsPrefix(consLog, pubLog)

\* Two different payloads were handed to the one consumer.
SingleConsumerOrderWitness ==
    /\ numConsumers = 1
    /\ Len(consLog) = 2 /\ consLog[1] # consLog[2]

\* C10 (SpecReturn): with nothing else running, ReturnRejected(n) returns
\* min(n, RejectedCount), Rejected is that much shorter and Ready that much
\* longer; ReturnAllRejected returns RejectedCount and leaves Rejected
\* empty.
ReturnRejectedMoves ==
    [][(retpc = "loop" /\ retpc' = "idle") =>
          /\ retval' = Min(retcall.count, retcall.rejected)
          /\ Len(rejected') = retcall.rejected - retval'
          /\ Len(ready') = retcall.ready + retval'
          /\ retcall.op = "ReturnAllRejected" =>
                 (retval' = retcall.rejected /\ rejected' = <<>>)]_vars

\* ReturnAllRejected is about to return after every published payload was
\* rejected and moved back to Ready.
ReturnRejectedMovesWitness ==
    /\ retpc = "loop" /\ retcall.op = "ReturnAllRejected"
    /\ retcall.rejected = MaxPublish /\ retcall.ready = 0
    /\ retleft = 0 /\ retmoved = MaxPublish
    /\ rejected = <<>> /\ Len(ready) = MaxPublish

\* C11 (SpecPurge): purge empties.  With nothing else running, a purge
\* call that returns leaves its structure empty and returns the size the
\* structure had when the call started.
PurgeEmpties ==
    [][(ppc = "loop" /\ ppc' = "idle") =>
          /\ pret' = psize
          /\ pkey = "ready" => ready' = <<>>
          /\ pkey = "rejected" => rejected' = <<>>
          /\ pkey = "delayed" => ZMembers(delayed') = {}]_vars

\* A purge has returned the size of a structure that was larger than two
\* rounds of the loop remove, and the structure is empty.
PurgeEmptiesWitness ==
    /\ ppc = "idle" /\ pkey = "ready" /\ pret > 2 * purgeBatchSize
    /\ psize = pret /\ ready = <<>>


\* C14 (SpecLife): the lifecycle is one-way and one-shot.  StartConsuming
\* returns true exactly when no buffer was made before, a false return
\* leaves the queue, the pollers and the store as they were, and it returns
\* true at most once; StopConsuming returns true exactly when consumption
\* was started and no stop was requested, and at most once.
LifecycleOneShot ==
    [][/\ (\E n \in 1..MaxPrefetch : StartConsuming(n)) =>
              /\ life'.ret <=> chanState = "nil"
              /\ ~life'.ret => UNCHANGED <<store, queue, rpoll, dpoll>>
       /\ StopConsuming =>
              /\ life'.ret <=> (chanState # "nil" /\ consumingStopped = 0)
              /\ ~life'.ret => UNCHANGED <<store, queue, rpoll, dpoll>>
       /\ life'.started <= 1 /\ life'.stopped <= 1]_vars

\* StartConsuming was refused on a queue that was started and stopped.
LifecycleOneShotWitness ==
    /\ life.op = "StartConsuming" /\ ~life.ret
    /\ life.started = 1 /\ life.stopped = 1 /\ chanState = "closed"


\* C12 (SpecStop): shutdown terminates.  After StopConsuming returned true,
\* unless the process has ended, both pollers eventually have closed their
\* buffers and returned, every launched worker has returned and no
\* WaitForConsuming call is waiting, under weak fairness of the pollers,
\* the workers and the waiting caller.
ShutdownTerminates ==
    (life.stopped = 1) ~>
        \/ panicked
        \/ /\ rpc = "done" /\ dpc = "done"
           /\ chanState = "closed" /\ delayedChanState = "closed"
           /\ \A w \in Workers : wpc[w] \in {"none", "done"}
           /\ waitpc = "idle"

\* C13 (SpecStop): the WaitForConsuming barrier.  WaitForConsuming returns
\* only when no launched worker is still running.
WaitBarrier ==
    [][WaitReturn => \A w \in Workers : wpc[w] \in {"none", "done"}]_vars

\* C18 (SpecStop): stop discards buffered work.  No worker is handed a
\* delivery from a buffer that its poller has closed.
StopDiscardsBuffered ==
    [][\A w \in Workers :
          (WorkerRecv(w) /\ wpc'[w] = "consume")
              => chanStateOf(w) # "closed"]_vars


\* The structures of the store that hold payload p.
Locations(p) ==
    {k \in {"ready", "delayed", "unacked", "rejected"} :
        \/ k = "ready" /\ p \in Range(ready)
        \/ k = "delayed" /\ p \in ZMembers(delayed)
        \/ k = "unacked" /\ p \in Range(unacked)
        \/ k = "rejected" /\ p \in Range(rejected)}

\* C15 (SpecRest): single location at rest.  With distinct payloads each
\* published once, whenever no Reject or Delay call is between its two
\* store steps, every payload is in at most one of Ready, Delayed, Unacked
\* and Rejected.
SingleLocationAtRest ==
    (\A w \in Workers : wpc[w] \notin {"moveLRem", "delayLRem"})
        => \A p \in Payloads : Cardinality(Locations(p)) <= 1


\* C16 (SpecBatch): the batched worker's flush rule.  For batchSize >= 1,
\* every call of the batch callback gets the worker's batch of 1 to
\* batchSize deliveries, either because the batch has just reached batchSize
\* or because the timer armed by the first delivery of that same batch has
\* fired; and when the worker goes back to its select after a flush, the
\* timer is not armed and its channel is empty.
BatchFlushRule ==
    [][\A path \in Paths :
          /\ (bpc[path] # "consume" /\ bpc'[path] = "consume") =>
                 /\ flushed'[path].size = Len(batch'[path])
                 /\ flushed'[path].size \in 1..bsize
                 /\ flushed'[path].cause \in {"size", "own"}
                 /\ flushed'[path].cause = "size" =>
                        (flushed'[path].size = bsize /\ batch'[path] # batch[path])
          /\ BatchReset(path) =>
                 (timer'[path] # "armed" /\ timerC'[path] = "empty")]_vars

\* A batch was flushed at batchSize, its timer fired before stopTimer, and
\* the worker is back at its select with the expiry drained.
BatchFlushRuleWitness ==
    \E path \in Paths :
        /\ bpc[path] = "select" /\ batch[path] = <<>>
        /\ flushed[path].cause = "size" /\ flushed[path].size = bsize
        /\ timer[path] = "expired" /\ timerC[path] = "empty"

\* C17 (SpecBatch): the batch timeout flush.  A batch only grows by
\* appending until it is reset after the callback, and a batched worker
\* that holds a non-empty batch at its select eventually passes its batch
\* to the callback, or the buffer is closed.
BatchTimeoutFlush ==
    /\ [][\A path \in Paths :
             \/ IsPrefix(batch[path], batch'[path])
             \/ BatchReset(path) \/ BatchStart(path)]_vars
    /\ \A path \in Paths :
          (bpc[path] = "select" /\ batch[path] # <<>>)
              ~> \/ bpc[path] = "consume" /\ batch[path] # <<>>
                 \/ chanStateOf(<<1, path>>) = "closed"

\* The callback was called by the timer with fewer than batchSize deliveries
\* while the buffer is open.
BatchTimeoutFlushWitness ==
    \E path \in Paths :
        /\ bpc[path] = "consume" /\ flushed[path].cause = "own"
        /\ flushed[path].size < bsize
        /\ chanStateOf(<<1, path>>) = "open"


\* The payloads in the structure that worker w's Reject, Push or Delay
\* call moves its payload to.
Destination(w) ==
    IF wcall[w] = "Delay" THEN ZMembers(delayed)
    ELSE IF wcall[w] = "Push" /\ wdel[w].pushKey # "" THEN Range(pushReady)
    ELSE Range(rejected)

\* A worker between the two store commands of Reject, Push or Delay.
Between(w) == wpc[w] \in {"moveLRem", "delayLRem"}

\* C19 (SpecMove): Reject, Push and Delay are add-then-remove.  The
\* first store command of such a call adds the payload to the destination
\* and leaves Unacked as it is, so a payload that was in Unacked is in both;
\* and in every state between the two commands, where a crash would leave
\* the store, the payload is in the destination or in Unacked.
AddThenRemove ==
    [][\A w \in Workers :
          /\ (~Between(w) /\ Between(w)') =>
                 /\ wdel[w].payload \in Destination(w)'
                 /\ unacked' = unacked
          /\ Between(w)' =>
                 \/ wdel'[w].payload \in Destination(w)'
                 \/ wdel'[w].payload \in Range(unacked')]_vars

\* A Delay call between its commands with its payload in Delayed and in
\* Unacked.
AddThenRemoveWitness ==
    \E w \in Workers :
        /\ wpc[w] = "delayLRem"
        /\ wdel[w].payload \in ZMembers(delayed)
        /\ wdel[w].payload \in Range(unacked)


\* The workers whose Ack removed a payload from Unacked while the
\* ReturnAllUnacked call ran (in SpecUnacked Acks run only then).
AckedMeanwhile == {w \in Workers : wcall[w] = "Ack" /\ wres[w]}

\* C20 (SpecUnacked): ReturnAllUnacked recovery.  Every iteration moves
\* the tail of Unacked to the head of Ready and keeps the multiset of Ready
\* plus Unacked; the call returns the number of payloads it moved and
\* leaves Unacked empty; with no other step during the call that is the
\* length Unacked had at the call, and when Acks took payloads meanwhile
\* it is that length less what they removed, the loop ending at the first
\* empty pop.
ReturnAllUnackedRecovers ==
    [][ReturnUnackedStep =>
          /\ \A p \in Payloads :
                Occ(ready', p) + Occ(unacked', p) = Occ(ready, p) + Occ(unacked, p)
          /\ retpc' = "unacked" =>
                /\ ready' = <<Last(unacked)>> \o ready
                /\ unacked' = Front(unacked)
          /\ retpc' = "idle" =>
                /\ retval' = retmoved
                /\ unacked' = <<>>
                /\ Len(ready') = retcall.ready + retval'
                /\ retval' = retcall.count - Cardinality(AckedMeanwhile)
                /\ (retval' < retcall.count) => RPopIsNil(unacked)]_vars

\* A call with nothing else running has moved two payloads and returned 2.
ReturnAllUnackedRecoversWitness ==
    /\ retpc = "idle" /\ nret > 0 /\ unacked = <<>>
    /\ retval = 2 /\ Len(ready) >= 2 /\ AckedMeanwhile = {}


\* The deliveries of the delayed path that no worker has received yet, in
\* the order the poller sends them: the buffered ones, then the rest of the
\* last reply.
Pending == deliveryChanForDelayedQueue \o dvals

\* C21 (SpecOrder): delayed-path ordering.  The deliveries of one script
\* call are in ascending order of the due times they had in Delayed and
\* are put behind every delivery of the earlier calls; the worker is
\* always handed the first pending delivery, and nothing else changes the
\* pending deliveries.
DelayedOrder ==
    [][/\ (DelayedEval /\ ~panicked') =>
              /\ dvals = <<>>
              /\ Pending' = Pending \o dvals'
              /\ \A i, j \in 1..Len(dvals') :
                    i < j => delayed[dvals'[i].payload] <= delayed[dvals'[j].payload]
       /\ \A w \in Workers :
              (w[2] = "delayed" /\ WorkerRecv(w) /\ wpc'[w] = "consume") =>
                  /\ wdel'[w] = Head(Pending)
                  /\ Pending' = Tail(Pending)
       /\ Pending' # Pending =>
              \/ DelayedEval
              \/ \E w \in Workers : w[2] = "delayed" /\ WorkerRecv(w)]_vars

\* The worker holds a delivery while the poller is still sending the
\* reply, and the next pending delivery has a later due time.
DelayedOrderWitness ==
    \E w \in Workers :
        /\ w[2] = "delayed" /\ wpc[w] = "consume" /\ dpc = "send"
        /\ Pending # <<>>
        /\ notBefore[wdel[w].payload] < notBefore[Head(Pending).payload]


\* C22 (SpecOrder): no payload is lost.  No Ack is called, so every
\* payload published so far (payloads 1..npub) is in Ready, Delayed,
\* Unacked, Rejected or the push queue's Ready.
NoPayloadLost ==
    \A p \in Payloads :
        p <= npub => (Locations(p) # {} \/ p \in Range(pushReady))


\* The payloads the ready poller has moved to Unacked and no worker has
\* received: the buffered deliveries and the one it is about to send.
Prefetched == Len(deliveryChan) + (IF rhold # NoDelivery THEN 1 ELSE 0)

\* C23 (SpecReady): ready-path backpressure.  Whenever the ready poller is
\* at its send the buffer has a free slot, and the payloads it has moved to
\* Unacked that no worker has received are at most prefetchLimit.
ReadyBackpressure ==
    /\ rpc = "send" => Len(deliveryChan) < prefetchLimit
    /\ rpc \in {"pop", "send"} => Len(deliveryChan) + rleft <= prefetchLimit
    /\ Prefetched <= prefetchLimit

\* The poller is at its send with one free slot left in a buffer that
\* already holds a delivery.
ReadyBackpressureWitness ==
    /\ rpc = "send" /\ rhold # NoDelivery
    /\ Len(deliveryChan) >= 1 /\ Len(deliveryChan) + 1 = prefetchLimit


\* C24 (SpecClose): buffer close discipline.  A buffer is closed only by
\* its own poller's check of the shutdown flag and only while it is open,
\* a closed buffer stays closed, and a delivery is sent only on an open
\* buffer.
CloseDiscipline ==
    [][/\ ConsumeCheck => (chanState = "open" /\ UNCHANGED delayedChanState)
       /\ DelayedCheck => (delayedChanState = "open" /\ UNCHANGED chanState)
       /\ chanState' # chanState =>
              \/ chanState = "nil" /\ chanState' = "open"
              \/ ConsumeCheck /\ chanState' = "closed"
       /\ delayedChanState' # delayedChanState =>
              \/ delayedChanState = "nil" /\ delayedChanState' = "open"
              \/ DelayedCheck /\ delayedChanState' = "closed"
       /\ Len(deliveryChan') > Len(deliveryChan) => chanState = "open"
       /\ Len(deliveryChanForDelayedQueue') > Len(deliveryChanForDelayedQueue)
              => delayedChanState = "open"
       /\ chanState = "closed" => rpc \in {"drain", "done"}
       /\ delayedChanState = "closed" => dpc \in {"drain", "done"}]_vars

\* Both pollers have closed their buffers and returned, after deliveries
\* were sent on both and a later StartConsuming was refused.
CloseDisciplineWitness ==
    /\ chanState = "closed" /\ delayedChanState = "closed"
    /\ rpc = "done" /\ dpc = "done"
    /\ unacked # <<>> /\ ready = <<>> /\ ZMembers(delayed) = {}
    /\ Len(unacked) = NumPayloads
    /\ life.op = "StartConsuming" /\ ~life.ret /\ life.stopped = 1


=============================================================================
